---- MODULE Spec2Model ----
(***************************************************************************)
(* State machine of the PlanilhasIA page (web/src/app/layout.tsx): the     *)
(* persisted preferences (slots, totalSlots, autoDownload, prompt), the    *)
(* ephemeral session (sessionId, messages), the toast queue, the loading   *)
(* flag and the asynchronous handleSubmit calls with the request each one  *)
(* sent and the response it is reading.                                    *)
(*                                                                         *)
(* Strings that the code inspects (file names, aliases, field names) are   *)
(* sequences of one-character strings, so that toLowerCase, endsWith,      *)
(* split/pop, trim and the template literals are computed, not assumed.    *)
(* An optional value is a sequence: <<>> when absent, <<v>> when present.  *)
(***************************************************************************)
EXTENDS Integers, Sequences, FiniteSets, TLC

\* ---------------------------------------------------------------- bounds
\* A submission is issued while the transcript has fewer entries than this.
MaxMessages == 2
\* Changes of a preference by the user (an accepted or cleared file, an
\* alias, the slot count, the prompt, auto-download), over the whole run.
MaxEdits == 1
\* Notices visible at the same time.
MaxToasts == 1
\* Notices visible at the same time when useToasts is taken on its own.
MaxNotices == 3

\* ------------------------------------------------------ program constants
MinSlots == 1
MaxSlots == 5

ALLOWED_EXTS == << <<".", "c", "s", "v">>, <<".", "x", "l", "s", "x">> >>

\* ------------------------------------------------------------ string helpers
Lower(ch) ==
  CASE ch = "B" -> "b"
    [] ch = "C" -> "c"
    [] ch = "L" -> "l"
    [] ch = "S" -> "s"
    [] ch = "V" -> "v"
    [] ch = "X" -> "x"
    [] OTHER -> ch

toLowerCase(s) == [k \in 1..Len(s) |-> Lower(s[k])]

endsWith(s, suffix) ==
  /\ Len(suffix) <= Len(s)
  /\ SubSeq(s, Len(s) - Len(suffix) + 1, Len(s)) = suffix

IsSpace(ch) == ch = " "

RECURSIVE trimStart(_)
trimStart(s) ==
  IF s # <<>> /\ IsSpace(Head(s)) THEN trimStart(Tail(s)) ELSE s

RECURSIVE trimEnd(_)
trimEnd(s) ==
  IF s # <<>> /\ IsSpace(s[Len(s)]) THEN trimEnd(SubSeq(s, 1, Len(s) - 1)) ELSE s

trim(s) == trimEnd(trimStart(s))

\* name.split(".").pop(): the part after the last "." (the whole name when
\* it holds no ".").
RECURSIVE splitPop(_)
splitPop(s) ==
  IF \E k \in 1..Len(s) : s[k] = "."
    THEN splitPop(Tail(s))
    ELSE s

Digits(n) == <<ToString(n)>>

OrElse(a, b) == IF a # <<>> THEN a ELSE b

\* ------------------------------------------------------------------ values
\* A slot's file: nothing (undefined or null), a File handle the user
\* picked, or the empty object that JSON.parse gives back for a File that
\* JSON.stringify wrote as {}.
NoFile == [kind |-> "none", name |-> <<>>]
FileOf(n) == [kind |-> "File", name |-> n]
PlainObject == [kind |-> "object", name |-> <<>>]

Truthy(file) == file.kind # "none"

FileA == FileOf(<<"a", ".", "c", "s", "v">>)
FileB == FileOf(<<"B", ".", "X", "L", "S", "X">>)
FileTxt == FileOf(<<"n", ".", "t", "x", "t">>)

PickedFiles == {FileA, FileB, FileTxt}

NoSheet == <<>>
SheetTruthy(sheet) == sheet # <<>> /\ sheet[1] # ""

AliasId == <<"i", "d">>
AliasCpf == <<"c", "p", "f">>
AliasPadded == <<" ", "x", " ">>
AliasBlank == <<" ">>
TypedAliases == {AliasPadded}

DefaultPrompt == "Leia as duas planilhas"
TypedPrompts == {"ordene"}

Slot(f, a, sh) == [file |-> f, alias |-> a, sheet |-> sh]

\* useLocalStore's initial value of planilhas.slots.
DefaultSlots == << Slot(NoFile, AliasId, NoSheet), Slot(NoFile, AliasCpf, NoSheet) >>

\* A planilhas.slots entry left in localStorage by an earlier page load:
\* three slots, one whose File was written as {}, one with a sheet.
StoredSlots ==
  << Slot(NoFile, AliasId, <<"Plan1">>),
     Slot(NoFile, AliasBlank, NoSheet),
     Slot(PlainObject, <<>>, <<"Plan2">>) >>

\* ------------------------------------------------------------- the state
VARIABLES
  sessionId,     \* useState sessionId
  messages,      \* useState messages: the transcript
  slots,         \* useLocalStore planilhas.slots
  totalSlots,    \* useLocalStore planilhas.totalSlots
  autoDownload,  \* useLocalStore planilhas.autoDownload
  prompt,        \* useLocalStore planilhas.prompt
  loading,       \* useState loading
  toasts,        \* useToasts: notices in insertion order, each with its timer
  calls,         \* handleSubmit invocations suspended at an await
  edits,         \* preference edits made so far
  event          \* the handler that ran last and how it ended

vars == << sessionId, messages, slots, totalSlots, autoDownload, prompt,
           loading, toasts, calls, edits, event >>

\* event.slot: the slot a pick was made for (0 for the other handlers);
\* event.saved: the file that downloadBlob saved to disk in that handler.
EvPick(out, i) == [op |-> "handlePick", out |-> out, slot |-> i, saved |-> <<>>]
EvSaved(op, out, saved) == [op |-> op, out |-> out, slot |-> 0, saved |-> saved]
Ev(op, out) == EvSaved(op, out, <<>>)

\* --------------------------------------------------------------- sessions
\* crypto.randomUUID(): five groups joined by "-"; the groups that vary are
\* modelled by one number, chosen different from every identifier in use.
randomUUID(n) == <<ToString(n), "-", "4", "-", "a">>

\* .replace(/-/g, "")
replaceDashes(s) == SelectSeq(s, LAMBDA ch : ch # "-")

ServerSession == <<"s", "r", "v">>

LiveSessions == {sessionId} \cup {c.sessionId : c \in calls}

FreshNumber ==
  CHOOSE n \in 1..(Cardinality(LiveSessions) + 1) :
    /\ replaceDashes(randomUUID(n)) \notin LiveSessions
    /\ \A m \in 1..(n - 1) : replaceDashes(randomUUID(m)) \in LiveSessions

FreshSession == replaceDashes(randomUUID(FreshNumber))

\* ---------------------------------------------------------------- toasts
ToastIds == {toasts[k].id : k \in 1..Len(toasts)}

\* Date.now() + Math.random(): a number no visible notice has.
FreshToastId ==
  CHOOSE n \in 1..(Len(toasts) + 1) :
    /\ n \notin ToastIds
    /\ \A m \in 1..(n - 1) : m \in ToastIds

\* useToasts.push: the list with one more notice.
pushOnce(ts, text) ==
  IF \E k \in 1..Len(ts) : ts[k].text = text
    THEN ts
    ELSE Append(ts, [id |-> FreshToastId, text |-> text])
push(ts, text) == Append(ts, [id |-> FreshToastId, text |-> text])

CanPush == Len(toasts) < MaxToasts

\* The timer that push started for notice id fires.
expire(ts, id) == SelectSeq(ts, LAMBDA x : x.id # id)

\* ----------------------------------------------------------- slot count
\* The value of planilhas.totalSlots: a number, or what is left of a value
\* that is no number (NaN, which JSON.stringify writes as null).
Num(n) == <<n>>
NotANumber == <<>>

\* totalSlots || 1: 0, NaN and null are falsy.
orOne(v) == IF v = NotANumber \/ v[1] = 0 THEN 1 ELSE v[1]

\* Math.min(5, Math.max(1, totalSlots || 1))
Max2(a, b) == IF a >= b THEN a ELSE b
Min2(a, b) == IF a <= b THEN a ELSE b
NoUpperBound(v) == Max2(MinSlots, orOne(v))
clamped(v) == Min2(MaxSlots, Max2(MinSlots, orOne(v)))

\* The effect on [totalSlots, slots.length]: grow with { alias: "" } or
\* slice.
reconcile(ss, n) ==
  IF Len(ss) < clamped(n)
    THEN ss \o [k \in 1..(clamped(n) - Len(ss)) |-> Slot(NoFile, <<>>, NoSheet)]
  ELSE IF Len(ss) > clamped(n)
    THEN SubSeq(ss, 1, clamped(n))
  ELSE ss

\* ------------------------------------------------------------------- Init
Init ==
  /\ sessionId = replaceDashes(randomUUID(1))
  /\ messages = <<>>
  /\ \E stored \in {DefaultSlots, StoredSlots} :
       /\ totalSlots = Num(Len(stored))
       /\ slots = reconcile(stored, totalSlots)
  /\ autoDownload = TRUE
  /\ prompt = DefaultPrompt
  /\ loading = FALSE
  /\ toasts = <<>>
  /\ calls = {}
  /\ edits = 0
  /\ event = Ev("mount", "ok")

\* ----------------------------------------------------- preference edits
\* { ...s, ...patch } for slot i, the other slots as they were.
updateSlot(ss, i, patch) ==
  [idx \in 1..Len(ss) |->
     IF idx = i
       THEN [f \in {"file", "alias", "sheet"} |->
               IF f \in DOMAIN patch THEN patch[f] ELSE ss[idx][f]]
       ELSE ss[idx]]

isAllowed(file) ==
  /\ Truthy(file)
  /\ \E k \in 1..Len(ALLOWED_EXTS) : endsWith(toLowerCase(file.name), ALLOWED_EXTS[k])

UnsupportedText(f) ==
  <<"Tipo nao suportado">> \o OrElse(splitPop(f.name), <<"desconhecido">>)

\* handlePick(i, null): the slot's file is cleared.
HandlePickNone(i) ==
  /\ edits < MaxEdits
  /\ slots' = updateSlot(slots, i, [file |-> NoFile])
  /\ edits' = edits + 1
  /\ event' = EvPick("cleared", i)
  /\ UNCHANGED << sessionId, messages, totalSlots, autoDownload, prompt,
                  loading, toasts, calls >>

\* The slot list after a pick that is not allowed: the branch returns
\* without a call of updateSlot.
ClearedOnReject(ss, i) == updateSlot(ss, i, [file |-> NoFile])
rejectedSlots(ss, i) == ss

\* handlePick(i, f) with a file whose extension is not allowed: a notice,
\* then return.
HandlePickRejected(i, f) ==
  /\ ~isAllowed(f)
  /\ CanPush
  /\ toasts' = push(toasts, UnsupportedText(f))
  /\ slots' = rejectedSlots(slots, i)
  /\ event' = EvPick("rejected", i)
  /\ UNCHANGED << sessionId, messages, totalSlots, autoDownload, prompt,
                  loading, calls, edits >>

\* handlePick(i, f) with an allowed file.
HandlePickAccepted(i, f) ==
  /\ edits < MaxEdits
  /\ isAllowed(f)
  /\ slots' = updateSlot(slots, i, [file |-> f])
  /\ edits' = edits + 1
  /\ event' = EvPick("accepted", i)
  /\ UNCHANGED << sessionId, messages, totalSlots, autoDownload, prompt,
                  loading, toasts, calls >>

\* The alias input's onChange.
SetAlias(i, a) ==
  /\ edits < MaxEdits
  /\ slots[i].alias # a
  /\ slots' = updateSlot(slots, i, [alias |-> a])
  /\ edits' = edits + 1
  /\ event' = Ev("setAlias", "ok")
  /\ UNCHANGED << sessionId, messages, totalSlots, autoDownload, prompt,
                  loading, toasts, calls >>

\* parseInt(e.target.value, 10) of an option's value.
parseInt(s) == CHOOSE n \in 0..9 : ToString(n) = s[1]

\* The select's onChange, and the effect that reconciles the slot list.
SetTotalSlots(option) ==
  /\ edits < MaxEdits
  /\ Num(parseInt(Digits(option))) # totalSlots
  /\ totalSlots' = Num(parseInt(Digits(option)))
  /\ slots' = reconcile(slots, totalSlots')
  /\ edits' = edits + 1
  /\ event' = Ev("setTotalSlots", "ok")
  /\ UNCHANGED << sessionId, messages, autoDownload, prompt,
                  loading, toasts, calls >>

\* The checkbox's onChange.
SetAutoDownload ==
  /\ edits < MaxEdits
  /\ autoDownload' = ~autoDownload
  /\ edits' = edits + 1
  /\ event' = Ev("setAutoDownload", "ok")
  /\ UNCHANGED << sessionId, messages, slots, totalSlots, prompt,
                  loading, toasts, calls >>

\* The textarea's onChange.
SetPrompt(text) ==
  /\ edits < MaxEdits
  /\ text # prompt
  /\ prompt' = text
  /\ edits' = edits + 1
  /\ event' = Ev("setPrompt", "ok")
  /\ UNCHANGED << sessionId, messages, slots, totalSlots, autoDownload,
                  loading, toasts, calls >>

\* ----------------------------------------------------------------- toasts
\* setTimeout(..., 4000): every timer has the same delay, so the timers fire
\* in the order of the pushes.
ToastExpire ==
  /\ toasts # <<>>
  /\ toasts' = expire(toasts, Head(toasts).id)
  /\ event' = Ev("toastExpire", "ok")
  /\ UNCHANGED << sessionId, messages, slots, totalSlots, autoDownload, prompt,
                  loading, calls, edits >>

\* ------------------------------------------------------------ new session
KeepSession == sessionId
NewChatSession == FreshSession
NewChatMessages == <<>>

newChat ==
  /\ sessionId' = NewChatSession
  /\ messages' = NewChatMessages
  /\ event' = Ev("newChat", "ok")
  /\ UNCHANGED << slots, totalSlots, autoDownload, prompt,
                  loading, toasts, calls, edits >>

\* ------------------------------------------------------------- responses
\* A header value or a content type is a sequence of pieces; includes is the
\* search for a contiguous run of pieces.
includes(s, pat) ==
  \E k \in 0..(Len(s) - Len(pat)) : SubSeq(s, k + 1, k + Len(pat)) = pat

XlsxType == <<"application/vnd.openxmlformats-officedocument.spreadsheetml.sheet">>
TextCsvType == <<"text/", "csv">>
CsvWord == <<"csv">>
JsonType == <<"application/json">>

\* cd.match(/filename="?([^"]+)"?/i): the piece after "filename=".
matchFilename(cd) ==
  IF \E k \in 1..(Len(cd) - 1) : cd[k] = "filename="
    THEN << cd[(CHOOSE k \in 1..(Len(cd) - 1) :
                  cd[k] = "filename=" /\ \A j \in 1..(k - 1) : cd[j] # "filename=") + 1] >>
    ELSE <<>>

SortSummary ==
  [detected_action |-> "SORT", destination |-> "x", source |-> "", key |-> "nome",
   added_columns |-> <<>>, fill_missing |-> "null", rows_total |-> 10,
   rows_unmatched |-> 0, sort_order |-> "desc"]

MergeSummary ==
  [detected_action |-> "MERGE", destination |-> "usuarios_id", source |-> "usuarios_cpf",
   key |-> "nome", added_columns |-> <<"cpf">>, fill_missing |-> "SEM CPF",
   rows_total |-> 3, rows_unmatched |-> 1]

UrlArtifacts == [result_url |-> "/files/r.xlsx", unmatched_url |-> "/files/u.xlsx", log_url |-> ""]

\* A body: JSON text holding a value, bytes that are no JSON, or a stream
\* that cannot be read.
JsonBody(v) == [kind |-> "json", value |-> <<v>>]
BytesBody == [kind |-> "bytes", value |-> <<>>]
BrokenBody == [kind |-> "unreadable", value |-> <<>>]

NoHeader == [kind |-> "absent", value |-> <<>>]
JsonHeader(v) == [kind |-> "json", value |-> <<v>>]
BadHeader == [kind |-> "garbage", value |-> <<>>]

Response(ok, ctype, summary, cd, body) ==
  [ok |-> ok, ctype |-> ctype, summaryHeader |-> summary, disposition |-> cd, body |-> body]

NoResponse == Response(FALSE, <<>>, NoHeader, <<>>, BrokenBody)

RunResponse(sid) == [session_id |-> sid, summary |-> MergeSummary, artifacts |-> UrlArtifacts]

\* What the backend may answer to a request sent with session_id sent.
Responses(sent) ==
  { Response(FALSE, JsonType, NoHeader, <<>>, JsonBody([detail |-> "arquivo invalido"])),
    Response(FALSE, JsonType, NoHeader, <<>>, JsonBody([detail |-> ""])),
    Response(FALSE, <<"text/", "html">>, NoHeader, <<>>, BytesBody),
    Response(TRUE, TextCsvType \o <<"; charset=utf-8">>, JsonHeader(SortSummary),
             <<"attachment; ", "filename=", "resultado.csv">>, BytesBody),
    Response(TRUE, XlsxType, NoHeader, <<>>, BytesBody),
    Response(TRUE, TextCsvType, BadHeader, <<>>, BytesBody),
    Response(TRUE, XlsxType, NoHeader, <<"attachment">>, BrokenBody),
    Response(TRUE, JsonType, NoHeader, <<>>, JsonBody(RunResponse(sent))),
    Response(TRUE, JsonType, NoHeader, <<>>, JsonBody(RunResponse(ServerSession))),
    Response(TRUE, JsonType, NoHeader, <<>>, BytesBody) }

\* What an await throws.
FailedToFetch == "TypeError: Failed to fetch"
SyntaxError == "SyntaxError: Unexpected token"
BodyError == "TypeError: body stream is not readable"

\* res.json(): [thrown, value].
json(res) ==
  IF res.body.kind = "json" THEN [thrown |-> <<>>, value |-> res.body.value]
  ELSE IF res.body.kind = "bytes" THEN [thrown |-> <<SyntaxError>>, value |-> <<>>]
  ELSE [thrown |-> <<BodyError>>, value |-> <<>>]

\* res.blob(): [thrown].
blob(res) ==
  IF res.body.kind = "unreadable" THEN [thrown |-> <<BodyError>>] ELSE [thrown |-> <<>>]

\* JSON.parse(summaryHeader) when the header is given: [thrown, value].
parseSummary(res) ==
  IF res.summaryHeader.kind = "garbage"
    THEN [thrown |-> <<SyntaxError>>, value |-> <<>>]
    ELSE [thrown |-> <<>>, value |-> res.summaryHeader.value]

isBinary(res) == includes(res.ctype, XlsxType) \/ includes(res.ctype, TextCsvType)

PlaceholderSummary ==
  [detected_action |-> "PROCESS", destination |-> "(arquivo gerado)", source |-> "",
   key |-> "", added_columns |-> <<>>, fill_missing |-> "null", rows_total |-> 0,
   rows_unmatched |-> 0]

EmptyArtifacts == [result_url |-> "", unmatched_url |-> "", log_url |-> ""]

\* downloadBlob's file name.
filename(res) ==
  OrElse(matchFilename(res.disposition),
         IF includes(res.ctype, CsvWord) THEN <<"planilhanova.csv">>
                                         ELSE <<"planilhanova.xlsx">>)[1]

\* Whether handleSubmit calls downloadBlob on a binary response: the call
\* at line 212 is not conditional.
callsDownloadBlob(auto) == TRUE

\* ------------------------------------------------------------ handleSubmit
\* The submit button's disabled attribute.
NeverDisabled == FALSE
submitDisabled == loading

\* slots.filter((s) => s.file)
used(ss) == SelectSeq(ss, LAMBDA s : Truthy(s.file))

\* `file${idx + 1}` and `planilha_${idx + 1}`
ZeroBasedName(n) == <<"f", "i", "l", "e">> \o Digits(n - 1)
fieldName(n) == <<"f", "i", "l", "e">> \o Digits(n)
planilha(n) == <<"p", "l", "a", "n", "i", "l", "h", "a", "_">> \o Digits(n)

\* FormData.append(name, value): a File is sent as a file part; any other
\* value is converted to a string.
formValue(file) ==
  IF file.kind = "File" THEN [part |-> "file", name |-> file.name]
                        ELSE [part |-> "string", name |-> <<"[object Object]">>]

\* The n-th populated slot's entries.
fileEntry(u, n) == [name |-> fieldName(n), value |-> formValue(u[n].file)]
TrimmedOnly(u, n) == [key |-> fieldName(n), value |-> trim(u[n].alias)]
aliasEntry(u, n) == [key |-> fieldName(n), value |-> OrElse(trim(u[n].alias), planilha(n))]
sheetEntry(u, n) == [key |-> fieldName(n), value |-> u[n].sheet[1]]

hasSheet(u, n) == SheetTruthy(u[n].sheet)

\* The sheets object: one key per populated slot with a sheet, in order.
sheetsOf(u) ==
  LET idx == SelectSeq([n \in 1..Len(u) |-> n], LAMBDA n : hasSheet(u, n))
  IN  [j \in 1..Len(idx) |-> sheetEntry(u, idx[j])]

\* if (Object.keys(sheets).length) form.append("sheets", ...): the field is
\* absent when the object has no key.
AlwaysSheetsField(u) == <<sheetsOf(u)>>
sheetsField(u) == IF sheetsOf(u) # <<>> THEN <<sheetsOf(u)>> ELSE <<>>

\* The FormData of one request.
buildForm(u, currentPrompt, sid, auto) ==
  [files |-> [n \in 1..Len(u) |-> fileEntry(u, n)],
   aliases |-> [n \in 1..Len(u) |-> aliasEntry(u, n)],
   sheets |-> sheetsField(u),
   prompt |-> currentPrompt,
   session_id |-> sid,
   download |-> IF auto THEN "1" ELSE "0",
   out_format |-> "xlsx"]

\* The transcript's entries (their "when" stamps are not modelled).
UserMessage(text) == [role |-> "user", text |-> text]
AssistantMessage(summary, artifacts) ==
  [role |-> "assistant", summary |-> summary, artifacts |-> artifacts]

\* A number that tells this invocation from the others that are running.
FreshCall ==
  CHOOSE n \in 1..(Cardinality(calls) + 1) :
    /\ \A c \in calls : c.id # n
    /\ \A m \in 1..(n - 1) : \E c \in calls : c.id = m

\* setMessages((prev) => [...prev, entry])
ReplaceMessages(ms, entry) == <<entry>>
appendMessage(ms, entry) == Append(ms, entry)

\* The transcript after a failure is handled: the error paths call no
\* setMessages.
WithErrorEntry(ms) == Append(ms, [role |-> "assistant", summary |-> <<>>, artifacts |-> <<>>])
failureMessages(ms) == ms

\* One running handleSubmit: where it waits, the sessionId it captured, the
\* request it sent, the response it got, and (for the record) the transcript
\* as it was at the click.
Call(id, pc, sid, form, res, before) ==
  [id |-> id, pc |-> pc, sessionId |-> sid, form |-> form, res |-> res, before |-> before]

\* The same call at its next await.
At(c, pc, res) == Call(c.id, pc, c.sessionId, c.form, res, c.before)

\* The click on a submit button with no populated slot: a notice and return.
HandleSubmitEmpty ==
  /\ ~submitDisabled
  /\ Len(used(slots)) < 1
  /\ CanPush
  /\ toasts' = push(toasts, <<"Envie pelo menos 1 arquivo (CSV/XLSX).">>)
  /\ event' = Ev("handleSubmit", "insufficient")
  /\ UNCHANGED << sessionId, messages, slots, totalSlots, autoDownload, prompt,
                  loading, calls, edits >>

\* setPrompt(""): the draft after the click.
KeptPrompt(p) == p
clearedPrompt(p) == ""

\* The click with at least one populated slot, up to the await of fetch.
HandleSubmitSend ==
  /\ ~submitDisabled
  /\ Len(used(slots)) >= 1
  /\ Len(messages) < MaxMessages
  /\ prompt' = clearedPrompt(prompt)
  /\ loading' = TRUE
  /\ messages' = appendMessage(messages, UserMessage(prompt))
  /\ calls' = calls \cup
       { Call(FreshCall, "fetch", sessionId,
              buildForm(used(slots), prompt, sessionId, autoDownload), NoResponse,
              messages) }
  /\ event' = Ev("handleSubmit", "sent")
  /\ UNCHANGED << sessionId, slots, totalSlots, autoDownload, toasts, edits >>

\* The finally block's setLoading(false).
NoFinally == loading
finallyLoading == FALSE

\* catch (e): the notice's text (every value thrown here is an Error).
catchText(thrown) == <<thrown[1]>>

\* The call ends in the catch block, then the finally block.
Caught(c, thrown, out) ==
  /\ CanPush
  /\ toasts' = push(toasts, catchText(thrown))
  /\ loading' = finallyLoading
  /\ calls' = calls \ {c}
  /\ messages' = failureMessages(messages)
  /\ event' = Ev("response", out)
  /\ UNCHANGED << sessionId, slots, totalSlots, autoDownload, prompt, edits >>

\* fetch rejects: the network call raised.
FetchReject(c) ==
  /\ c.pc = "fetch"
  /\ Caught(c, <<FailedToFetch>>, "network")

\* fetch resolves with a response; the code runs up to its next await.
FetchResolve(c, res) ==
  /\ c.pc = "fetch"
  /\ IF ~res.ok
       THEN /\ calls' = (calls \ {c}) \cup {At(c, "errorBody", res)}
            /\ event' = Ev("fetch", "status")
            /\ UNCHANGED << sessionId, messages, slots, totalSlots, autoDownload, prompt,
                            loading, toasts, edits >>
     ELSE IF isBinary(res)
       THEN IF parseSummary(res).thrown # <<>>
              THEN Caught(c, parseSummary(res).thrown, "header")
              ELSE /\ calls' = (calls \ {c}) \cup {At(c, "blob", res)}
                   /\ event' = Ev("fetch", "binary")
                   /\ UNCHANGED << sessionId, messages, slots, totalSlots, autoDownload,
                                   prompt, loading, toasts, edits >>
     ELSE /\ calls' = (calls \ {c}) \cup {At(c, "json", res)}
          /\ event' = Ev("fetch", "json")
          /\ UNCHANGED << sessionId, messages, slots, totalSlots, autoDownload, prompt,
                          loading, toasts, edits >>

\* detail = j?.detail || detail, with the decode failure swallowed.
GenericError == "Erro ao processar."
AlwaysGeneric(res) == GenericError
errorDetail(res) ==
  IF json(res).thrown = <<>> /\ json(res).value[1].detail # ""
    THEN json(res).value[1].detail
    ELSE GenericError

\* A non-success status: res.json() settles, push(detail), return, finally.
ErrorBodySettle(c) ==
  /\ c.pc = "errorBody"
  /\ CanPush
  /\ toasts' = push(toasts, <<errorDetail(c.res)>>)
  /\ loading' = finallyLoading
  /\ calls' = calls \ {c}
  /\ messages' = failureMessages(messages)
  /\ event' = Ev("response", "status")
  /\ UNCHANGED << sessionId, slots, totalSlots, autoDownload, prompt, edits >>

\* summary || placeholder
AlwaysPlaceholder(res) == PlaceholderSummary
summaryOf(res) == OrElse(parseSummary(res).value, <<PlaceholderSummary>>)[1]

\* (A) the binary answer: res.blob() settles, downloadBlob, one assistant
\* entry, return, finally.
BlobSettle(c) ==
  /\ c.pc = "blob"
  /\ IF blob(c.res).thrown # <<>>
       THEN Caught(c, blob(c.res).thrown, "body")
       ELSE /\ event' = EvSaved("response", "binary",
                                IF callsDownloadBlob(autoDownload)
                                  THEN <<filename(c.res)>> ELSE <<>>)
            /\ messages' = appendMessage(messages,
                                  AssistantMessage(summaryOf(c.res), EmptyArtifacts))
            /\ loading' = finallyLoading
            /\ calls' = calls \ {c}
            /\ UNCHANGED << sessionId, slots, totalSlots, autoDownload, prompt,
                            toasts, edits >>

\* if (data?.session_id && data.session_id !== sessionId) setSessionId(...):
\* sessionId is the value the running call captured when it started.
adoptSession(data, captured, current) ==
  IF data.session_id # <<>> /\ data.session_id # captured
    THEN data.session_id
    ELSE current

\* (B) the JSON answer: res.json() settles, the session is adopted, one
\* assistant entry, finally.
JsonSettle(c) ==
  /\ c.pc = "json"
  /\ IF json(c.res).thrown # <<>>
       THEN Caught(c, json(c.res).thrown, "decode")
       ELSE LET data == json(c.res).value[1]
            IN  /\ sessionId' = adoptSession(data, c.sessionId, sessionId)
                /\ messages' = appendMessage(messages,
                                      AssistantMessage(data.summary, data.artifacts))
                /\ loading' = finallyLoading
                /\ calls' = calls \ {c}
                /\ event' = Ev("response", "json")
                /\ UNCHANGED << slots, totalSlots, autoDownload, prompt,
                                toasts, edits >>

\* ------------------------------------------------------------------ reload
\* JSON.parse(JSON.stringify(slot)): a File has no enumerable property of
\* its own and is written as {}.
roundTrip(slot) ==
  Slot(IF slot.file.kind = "none" THEN NoFile ELSE PlainObject, slot.alias, slot.sheet)

\* The mount effect's purge of localStorage: the keys that remain.
startsWith(s, prefix) == Len(prefix) <= Len(s) /\ SubSeq(s, 1, Len(prefix)) = prefix
ChatPrefix == <<"planilhas.", "chat.">>
purge(keys) == {k \in keys : ~startsWith(k, ChatPrefix)}

\* The keys that useLocalStore writes, and a localStorage that also holds
\* chat keys and a key of another page.
PreferenceKeys ==
  { <<"planilhas.", "slots">>, <<"planilhas.", "totalSlots">>,
    <<"planilhas.", "autoDownload">>, <<"planilhas.", "prompt">> }
StorageKeys ==
  PreferenceKeys \cup { <<"planilhas.", "chat.", "s1">>, <<"planilhas.", "chat.">>,
                        <<"planilhas.", "chats">>, <<"theme">> }

\* A full page reload: the preferences are read back from localStorage, the
\* session is a new one, and the page's pending calls and timers are gone.
Reload ==
  /\ sessionId' = FreshSession
  /\ messages' = <<>>
  /\ slots' = reconcile([k \in 1..Len(slots) |-> roundTrip(slots[k])], totalSlots)
  /\ loading' = FALSE
  /\ toasts' = <<>>
  /\ calls' = {}
  /\ event' = Ev("mount", "reload")
  /\ UNCHANGED << totalSlots, autoDownload, prompt, edits >>

\* -------------------------------------------------------------------- Next
Next ==
  \/ \E i \in 1..Len(slots) : HandlePickNone(i)
  \/ \E i \in 1..Len(slots), f \in PickedFiles : HandlePickRejected(i, f)
  \/ \E i \in 1..Len(slots), f \in PickedFiles : HandlePickAccepted(i, f)
  \/ \E i \in 1..Len(slots), a \in TypedAliases : SetAlias(i, a)
  \/ \E option \in MinSlots..MaxSlots : SetTotalSlots(option)
  \/ SetAutoDownload
  \/ \E text \in TypedPrompts : SetPrompt(text)
  \/ ToastExpire
  \/ newChat
  \/ HandleSubmitEmpty
  \/ HandleSubmitSend
  \/ \E c \in calls : FetchReject(c)
  \/ \E c \in calls : \E res \in Responses(c.sessionId) : FetchResolve(c, res)
  \/ \E c \in calls : ErrorBodySettle(c)
  \/ \E c \in calls : BlobSettle(c)
  \/ \E c \in calls : JsonSettle(c)
  \/ Reload

Spec == Init /\ [][Next]_vars

\* ------------------------------------------------------------- useToasts
\* The hook on its own: push as the page's handlers call it, with the texts
\* they give it, and the timers; a timer that was started fires.
NoticeTexts ==
  { <<"Envie pelo menos 1 arquivo (CSV/XLSX).">>, UnsupportedText(FileTxt), <<GenericError>> }

PushNotice(text) ==
  /\ Len(toasts) < MaxNotices
  /\ toasts' = push(toasts, text)
  /\ event' = Ev("push", "ok")
  /\ UNCHANGED << sessionId, messages, slots, totalSlots, autoDownload, prompt,
                  loading, calls, edits >>

ToastNext ==
  \/ \E text \in NoticeTexts : PushNotice(text)
  \/ ToastExpire

ToastSpec == Init /\ [][ToastNext]_vars /\ WF_vars(ToastExpire)

\* ------------------------------------------------- the slot-count effect
\* The page's first render with what localStorage holds, written by an
\* earlier load, another tab or another version of the page: a slot list
\* and a totalSlots that need not agree and need not be in 1..5. The effect
\* on [totalSlots, slots.length] then runs as a step of its own.
FiveSlots == StoredSlots \o DefaultSlots
StoredLists == {DefaultSlots, StoredSlots, FiveSlots}
StoredTotals == {Num(0 - 1), Num(0), Num(2), Num(4), Num(7), NotANumber}

SlotInit ==
  /\ sessionId = replaceDashes(randomUUID(1))
  /\ messages = <<>>
  /\ slots \in StoredLists
  /\ totalSlots \in StoredTotals
  /\ autoDownload = TRUE
  /\ prompt = DefaultPrompt
  /\ loading = FALSE
  /\ toasts = <<>>
  /\ calls = {}
  /\ edits = 0
  /\ event = Ev("mount", "render")

\* The slot list has the length the effect asks for.
Settled == Len(slots) = clamped(totalSlots)

SlotCountEffect ==
  /\ ~Settled
  /\ slots' = reconcile(slots, totalSlots)
  /\ event' = Ev("slotCountEffect", "ok")
  /\ UNCHANGED << sessionId, messages, totalSlots, autoDownload, prompt,
                  loading, toasts, calls, edits >>

\* Effects run before the next event is handled.
SlotNext ==
  \/ SlotCountEffect
  \/ Settled /\ \E option \in MinSlots..MaxSlots : SetTotalSlots(option)
  \/ Settled /\ \E i \in 1..Len(slots), f \in PickedFiles : HandlePickAccepted(i, f)
  \/ Settled /\ \E i \in 1..Len(slots), a \in TypedAliases : SetAlias(i, a)

SlotSpec == SlotInit /\ [][SlotNext]_vars

\* ================================================================ claims
IsPrefix(a, b) == Len(a) <= Len(b) /\ SubSeq(b, 1, Len(a)) = a

CallIds(cs) == {c.id : c \in cs}

\* The calls that end in this step.
Ending == {c \in calls : c.id \notin CallIds(calls')}

\* The calls that start in this step.
Starting == {c \in calls' : c.id \notin CallIds(calls)}

FailureOutcomes == {"status", "network", "header", "body", "decode"}

\* This step is the end of a submission that failed.
FailureHandled == event'.op = "response" /\ event'.out \in FailureOutcomes

\* C1: in every reachable state at most one request to /process is
\* outstanding, and while one is outstanding loading is true, which is what
\* disables the submit button.
C1_OneSubmissionInFlight ==
  /\ Cardinality(calls) <= 1
  /\ calls # {} => loading

\* A request is outstanding while the slots and the transcript would let
\* another click send one.
C1_Witness ==
  /\ Cardinality(calls) = 1
  /\ loading
  /\ Len(used(slots)) >= 1
  /\ Len(messages) < MaxMessages

\* C2: whenever no handleSubmit call is running, and in particular right
\* after a call ended with whichever outcome, loading is false.
C2_LoadingClearedWhenDone ==
  /\ calls = {} => ~loading
  /\ event.op = "response" => ~loading

\* A submission ended on a failure to decode (the summary header, the body
\* or the JSON) and the client is idle.
C2_Witness ==
  /\ event.op = "response"
  /\ event.out \in {"header", "body", "decode"}
  /\ calls = {}
  /\ ~loading

\* C3 as stated: once a failure is handled, the transcript equals the
\* transcript before the submit action.
C3_TranscriptAsBeforeSubmit ==
  [][FailureHandled => \A c \in Ending : messages' = c.before]_vars

\* C3 as amended: handling a failure appends nothing; the transcript after
\* the failure is handled is the transcript as it was when the failure
\* arrived, and unless a new session began meanwhile that is the transcript
\* before the submit action followed by the submission's user entry.
C3_FailureAppendsNothing ==
  [][FailureHandled =>
       /\ messages' = messages
       /\ \A c \in Ending :
            c.sessionId = sessionId =>
              messages' = Append(c.before, UserMessage(c.form.prompt))]_vars

\* A failed submission has been handled and its user entry is in the
\* transcript.
C3_Witness ==
  /\ event.op = "response"
  /\ event.out \in FailureOutcomes
  /\ messages # <<>>
  /\ messages[Len(messages)].role = "user"

\* C4: every step that is not a new session (newChat, or the page being
\* loaded again) leaves the transcript before the step a prefix of the
\* transcript after it.
C4_AppendOnly ==
  [][event'.op \notin {"newChat", "mount"} => IsPrefix(messages, messages')]_vars

\* A second round was appended after a first one.
C4_Witness ==
  /\ Len(messages) >= 3
  /\ event.op = "response"
  /\ messages[Len(messages)].role = "assistant"

\* C5: newChat replaces the session identifier by a different one and
\* empties the transcript, in one step.
C5_NewChatResets ==
  [][event'.op = "newChat" => sessionId' # sessionId /\ messages' = <<>>]_vars

\* newChat ran while a submission, whose user entry was in the transcript,
\* was still running.
C5_Witness ==
  /\ event.op = "newChat"
  /\ messages = <<>>
  /\ \E c \in calls : c.sessionId # sessionId

\* The body that the JSON answer of call c decodes to.
DataOf(c) == json(c.res).value[1]

\* This step is the end of call c on a decoded JSON answer.
JsonHandled(c) ==
  /\ c \in Ending
  /\ c.pc = "json"
  /\ event'.op = "response"
  /\ event'.out = "json"

\* C6: when a decoded JSON answer carries a session identifier different
\* from the current one, the current identifier becomes the server's and the
\* transcript is the one before followed by exactly one assistant entry with
\* the decoded summary and artifacts.
C6_AdoptsServerSession ==
  [][\A c \in calls :
       JsonHandled(c) /\ DataOf(c).session_id # <<>> /\ DataOf(c).session_id # sessionId =>
         /\ sessionId' = DataOf(c).session_id
         /\ messages' = Append(messages,
                               AssistantMessage(DataOf(c).summary, DataOf(c).artifacts))]_vars

\* C7: after a binary answer was handled, a file was saved to disk exactly
\* when the auto-download preference is on.
C7_DownloadIffAutoDownload ==
  event.op = "response" /\ event.out = "binary" =>
    (event.saved # <<>> <=> autoDownload)

\* No slot holds a File handle.
NoFileAttached == \A k \in 1..Len(slots) : slots[k].file.kind # "File"

\* C8: a click on the submit button while no slot has an attached file
\* raises exactly one notice and changes nothing else: no request, and the
\* transcript, the prompt, the session identifier and loading (false) as
\* they were.
C8_NoFileNoRequest ==
  [][event'.op = "handleSubmit" /\ NoFileAttached =>
       /\ Len(toasts') = Len(toasts) + 1
       /\ calls' = calls
       /\ messages' = messages
       /\ prompt' = prompt
       /\ sessionId' = sessionId
       /\ loading' = loading
       /\ ~loading']_vars

\* This step is a pick that was rejected.
PickRejected == event'.op = "handlePick" /\ event'.out = "rejected"

\* C9 as stated: a rejected pick raises a notice and leaves the slot's file
\* empty, the rest of the slot list as it was.
C9_RejectedPickEmptiesSlot ==
  [][PickRejected =>
       /\ Len(toasts') = Len(toasts) + 1
       /\ slots' = updateSlot(slots, event'.slot, [file |-> NoFile])]_vars

\* C9 as amended: a rejected pick raises one notice and leaves the whole
\* slot list, the picked slot's file included, as it was; a pick is rejected
\* exactly when the lower-cased name ends in neither .csv nor .xlsx, and
\* only a file with such an ending is ever stored by a pick.
C9_RejectedPickKeepsSlot ==
  [][/\ PickRejected =>
          /\ Len(toasts') = Len(toasts) + 1
          /\ slots' = slots
     /\ event'.op = "handlePick" /\ event'.out = "accepted" =>
          LET n == toLowerCase(slots'[event'.slot].file.name)
          IN  \/ SubSeq(n, Len(n) - 3, Len(n)) = <<".", "c", "s", "v">>
              \/ SubSeq(n, Len(n) - 4, Len(n)) = <<".", "x", "l", "s", "x">>]_vars

\* A pick was rejected for a slot that held a picked file, and the slot
\* still holds it.
C9_Witness ==
  /\ event.op = "handlePick"
  /\ event.out = "rejected"
  /\ slots[event.slot].file.kind = "File"
  /\ toasts # <<>>

\* The populated slots, as the set of their positions, and the k-th of them.
Populated == {i \in 1..Len(slots) : slots[i].file.kind # "none"}
KthPopulated(k) ==
  CHOOSE i \in Populated : Cardinality({j \in Populated : j <= i}) = k

FileN(k) == <<"f", "i", "l", "e", ToString(k)>>

\* C10: the request that a submission sends has exactly the file fields
\* file1..fileN, N the number of populated slots, field k carrying the file
\* of the k-th populated slot; the alias map has exactly the keys
\* file1..fileN; every key of the sheets map is one of them, and its value
\* is the sheet of the slot whose file that field carries.
C10_ContiguousFieldNames ==
  [][\A c \in Starting :
       LET N == Cardinality(Populated)
           form == c.form
           sheets == IF form.sheets = <<>> THEN <<>> ELSE form.sheets[1]
       IN  /\ N >= 1
           /\ Len(form.files) = N
           /\ \A k \in 1..N :
                /\ form.files[k].name = FileN(k)
                /\ form.files[k].value.part = "file" =>
                     form.files[k].value.name = slots[KthPopulated(k)].file.name
                /\ form.files[k].value.part = "file" <=>
                     slots[KthPopulated(k)].file.kind = "File"
           /\ {form.aliases[k].key : k \in 1..Len(form.aliases)} = {FileN(k) : k \in 1..N}
           /\ Len(form.aliases) = N
           /\ \A j \in 1..Len(sheets) :
                \E k \in 1..N :
                  /\ sheets[j].key = FileN(k)
                  /\ slots[KthPopulated(k)].sheet = <<sheets[j].value>>]_vars

\* A request was just sent from a slot list whose populated slots are
\* separated by an empty one, with a sheets map.
C10_Witness ==
  /\ event.op = "handleSubmit"
  /\ event.out = "sent"
  /\ \E c \in calls :
       /\ c.pc = "fetch"
       /\ Len(c.form.files) >= 2
       /\ c.form.sheets # <<>>
       /\ \E i, j, k \in 1..Len(slots) :
            /\ i < j /\ j < k
            /\ Truthy(slots[i].file) /\ ~Truthy(slots[j].file) /\ Truthy(slots[k].file)
            /\ slots[i].file.kind = "File"

\* An alias that is empty or holds white space only.
Blank(a) == \A k \in 1..Len(a) : a[k] = " "

PlanilhaN(k) == <<"p", "l", "a", "n", "i", "l", "h", "a", "_", ToString(k)>>

\* C11: in the request that a submission sends, the alias map's value for
\* the k-th populated slot is planilha_k when that slot's alias is blank,
\* under the key filek, and no value of the alias map is the empty string.
C11_BlankAliasDefault ==
  [][\A c \in Starting :
       \A k \in 1..Len(c.form.aliases) :
         /\ c.form.aliases[k].value # <<>>
         /\ ~Blank(c.form.aliases[k].value)
         /\ Blank(slots[KthPopulated(k)].alias) =>
              /\ c.form.aliases[k].key = FileN(k)
              /\ c.form.aliases[k].value = PlanilhaN(k)]_vars

\* A request was just sent from a slot list in which a populated slot has an
\* alias of white space only, and that slot is not at its own position among
\* the populated ones.
C11_Witness ==
  /\ event.op = "handleSubmit"
  /\ event.out = "sent"
  /\ \E c \in calls :
       /\ c.pc = "fetch"
       /\ \E k \in 1..Len(c.form.aliases) :
            /\ KthPopulated(k) # k
            /\ slots[KthPopulated(k)].alias = AliasBlank
            /\ c.form.aliases[k].value = PlanilhaN(k)

\* The slot has a sheet selector.
WithSheet(s) == s.sheet # <<>> /\ s.sheet # <<"">>

\* C12: in the request that a submission sends, no populated slot without a
\* sheet selector is a key of the sheets map, and the sheets field is in the
\* request exactly when some populated slot has a sheet selector.
C12_SheetsOnlyWhenSelected ==
  [][\A c \in Starting :
       LET N == Cardinality(Populated)
           sheets == IF c.form.sheets = <<>> THEN <<>> ELSE c.form.sheets[1]
           keys == {sheets[j].key : j \in 1..Len(sheets)}
       IN  /\ \A k \in 1..N :
                ~WithSheet(slots[KthPopulated(k)]) => FileN(k) \notin keys
           /\ c.form.sheets # <<>> <=>
                \E k \in 1..N : WithSheet(slots[KthPopulated(k)])]_vars

\* A request was just sent with a sheets field, from a slot list in which
\* one populated slot has a sheet selector and another has none.
C12_Witness ==
  /\ event.op = "handleSubmit"
  /\ event.out = "sent"
  /\ \E c \in calls :
       /\ c.pc = "fetch"
       /\ c.form.sheets # <<>>
       /\ Len(c.form.sheets[1]) < Len(c.form.files)
  /\ \E i, j \in Populated : WithSheet(slots[i]) /\ ~WithSheet(slots[j])

\* C13: the step that sends a request clears the draft, before fetch
\* settles, and puts the draft as it was at the click in the request's
\* prompt field and in the appended user entry; no later step of the
\* submission, whichever its outcome, changes the draft.
C13_PromptClearedAtSubmit ==
  [][/\ \A c \in Starting :
          /\ c.pc = "fetch"
          /\ prompt' = ""
          /\ c.form.prompt = prompt
          /\ messages' = Append(messages, UserMessage(prompt))
     /\ event'.op \in {"fetch", "response"} => prompt' = prompt]_vars

\* A submission of a typed draft ended on a failure and the draft is still
\* empty, the user entry carrying the typed text.
C13_Witness ==
  /\ event.op = "response"
  /\ event.out \in FailureOutcomes
  /\ prompt = ""
  /\ \E k \in 1..Len(messages) : messages[k] = UserMessage("ordene")

\* The length asked for by a requested count: min(5, max(1, n)), a value
\* that is no number counting as the least one.
ExpectedLength(v) ==
  LET n == IF v = <<>> THEN 1 ELSE v[1]
  IN  IF n < 1 THEN 1 ELSE IF n > 5 THEN 5 ELSE n

\* C14: once the slot-count reconciliation has run for the requested count,
\* the slot list has length min(5, max(1, n)); it is the list before cut to
\* that length, or the list before followed by slots with an empty alias and
\* no file.
C14_SlotCountClamped ==
  [][event'.op \in {"slotCountEffect", "setTotalSlots"} =>
       LET L == ExpectedLength(totalSlots')
       IN  /\ Len(slots') = L
           /\ \/ /\ L <= Len(slots)
                 /\ slots' = SubSeq(slots, 1, L)
              \/ /\ L > Len(slots)
                 /\ SubSeq(slots', 1, Len(slots)) = slots
                 /\ \A k \in (Len(slots) + 1)..L :
                      /\ slots'[k].alias = <<>>
                      /\ slots'[k].file = NoFile]_vars

\* The reconciliation ran for a requested count that is no number and cut a
\* longer list to one slot.
C14_Witness ==
  /\ event.op = "slotCountEffect"
  /\ totalSlots = NotANumber
  /\ Len(slots) = 1
  /\ slots[1] = StoredSlots[1]

\* C15: a page reload leaves the slot definitions, the slot count, the
\* auto-download flag and the draft as they were, empties the transcript
\* and gives a new session identifier; the start-up purge removes the keys
\* under planilhas.chat. and no other, so no preference key.
C15_PreferencesSurviveReload ==
  [][event'.op = "mount" =>
       /\ slots' = slots
       /\ totalSlots' = totalSlots
       /\ autoDownload' = autoDownload
       /\ prompt' = prompt
       /\ messages' = <<>>
       /\ sessionId' # sessionId
       /\ PreferenceKeys \subseteq purge(StorageKeys)
       /\ \A k \in StorageKeys \ purge(StorageKeys) :
            Len(k) >= 2 /\ k[1] = "planilhas." /\ k[2] = "chat."]_vars

\* This step is the end of call c on a binary answer whose body was read.
BinaryHandled(c) ==
  /\ c \in Ending
  /\ c.pc = "blob"
  /\ event'.op = "response"
  /\ event'.out = "binary"

\* C16: handling a binary answer appends exactly one assistant entry, with
\* all artifact links empty; without an X-Run-Summary header its summary is
\* the placeholder (action PROCESS, no rows, no unmatched rows, no added
\* column), with the header it is the value the header decodes to.
C16_BinarySummary ==
  [][\A c \in calls :
       BinaryHandled(c) =>
         /\ Len(messages') = Len(messages) + 1
         /\ SubSeq(messages', 1, Len(messages)) = messages
         /\ LET entry == messages'[Len(messages')]
            IN  /\ entry.role = "assistant"
                /\ entry.artifacts = [result_url |-> "", unmatched_url |-> "", log_url |-> ""]
                /\ IF c.res.summaryHeader.kind = "absent"
                     THEN /\ entry.summary.detected_action = "PROCESS"
                          /\ entry.summary.rows_total = 0
                          /\ entry.summary.rows_unmatched = 0
                          /\ entry.summary.added_columns = <<>>
                     ELSE entry.summary = c.res.summaryHeader.value[1]]_vars

\* A binary answer without the header was handled and the placeholder entry
\* closes the transcript, after the submission's user entry.
C16_Witness ==
  /\ event.op = "response"
  /\ event.out = "binary"
  /\ Len(messages) >= 2
  /\ messages[Len(messages)].role = "assistant"
  /\ messages[Len(messages)].summary.detected_action = "PROCESS"
  /\ messages[Len(messages)].summary.rows_total = 0

\* The text that a non-success answer's body gives: its detail when the body
\* is JSON and has one, the generic message otherwise.
DetailOf(res) ==
  IF res.body.kind = "json" /\ res.body.value[1].detail # ""
    THEN res.body.value[1].detail
    ELSE "Erro ao processar."

\* C17: a call that read the body of a non-success answer ends, unless the
\* page is loaded again, with exactly one more notice, whose text is the
\* body's detail or the generic message, put after the notices there were;
\* it ends on the status path, not in the catch block, with loading false
\* and the transcript as it was.
C17_StatusFailureAbsorbed ==
  [][\A c \in calls :
       c.pc = "errorBody" /\ c \in Ending /\ event'.op # "mount" =>
         /\ event'.op = "response"
         /\ event'.out = "status"
         /\ Len(toasts') = Len(toasts) + 1
         /\ SubSeq(toasts', 1, Len(toasts)) = toasts
         /\ toasts'[Len(toasts')].text = <<DetailOf(c.res)>>
         /\ ~loading'
         /\ messages' = messages]_vars

\* A non-success answer whose body is no JSON was handled: the generic
\* message is shown and the client is idle.
C17_Witness ==
  /\ event.op = "response"
  /\ event.out = "status"
  /\ toasts # <<>>
  /\ toasts[Len(toasts)].text = <<"Erro ao processar.">>
  /\ calls = {}
  /\ ~loading

\* The list ts without its k-th notice.
Without(ts, k) == SubSeq(ts, 1, k - 1) \o SubSeq(ts, k + 1, Len(ts))

\* C18: a push puts exactly one notice, with an identifier of its own, after
\* the notices there are, whether or not its text is already shown; an
\* expiry takes exactly one notice out and leaves the others in their order;
\* and every notice shown is removed at some later time.
C18_ToastQueue ==
  /\ [][/\ event'.op = "push" =>
             /\ Len(toasts') = Len(toasts) + 1
             /\ SubSeq(toasts', 1, Len(toasts)) = toasts
             /\ toasts'[Len(toasts')].id \notin ToastIds
        /\ event'.op = "toastExpire" =>
             \E k \in 1..Len(toasts) : toasts' = Without(toasts, k)]_vars
  /\ \A id \in 1..(MaxNotices + 1) : (id \in ToastIds) ~> (id \notin ToastIds)

\* Two notices with the same text are shown, behind a third one.
C18_Witness ==
  /\ Len(toasts) = 3
  /\ toasts[2].text = toasts[3].text
  /\ toasts[2].id # toasts[3].id
  /\ toasts[1].text # toasts[2].text

\* Every assistant entry of transcript ms comes right after a user entry.
AnswersFollowQuestions(ms) ==
  \A k \in 1..Len(ms) :
    ms[k].role = "assistant" => k > 1 /\ ms[k - 1].role = "user"

\* C19: the end of a call whose request was sent before a newChat (the
\* session it captured is not the current one) changes neither the
\* transcript nor the session identifier, and in every transcript each
\* assistant entry follows the user entry it answers.
C19_LateResponseIgnored ==
  [][/\ \A c \in Ending :
          event'.op = "response" /\ c.sessionId # sessionId =>
            /\ messages' = messages
            /\ sessionId' = sessionId
     /\ AnswersFollowQuestions(messages')]_vars

\* C20: a request is sent only when some slot holds a File handle, which is
\* what a pick of this page load stores; a slot whose file is what a reload
\* restored is not among the populated slots of handleSubmit.
C20_RequestNeedsPickedFile ==
  [][\A c \in Starting :
       /\ \E k \in 1..Len(slots) : slots[k].file.kind = "File"
       /\ \A n \in 1..Len(c.form.files) : c.form.files[n].value.part = "file"]_vars

====
